---- MODULE Spec2Model ----
(***************************************************************************)
(* Model of bot.py: the tick buffers filled by the websocket thread        *)
(* (on_message), the digit scorer (analyze_market), the market selection   *)
(* and the timed notification cycle (fetch_and_analyze, schedule_signals)  *)
(* with its Telegram message bookkeeping.                                  *)
(*                                                                         *)
(* Two threads run: the main thread in schedule_signals and ws_thread in   *)
(* run_websocket.  They share market_ticks without any lock, so every      *)
(* statement that touches a buffer is a step of its own.                   *)
(*                                                                         *)
(* A quote is a float with two decimals, held here in hundredths           *)
(* (1234.56 is 123456).                                                    *)
(***************************************************************************)
EXTENDS Integers, Sequences, FiniteSets, TLC

\* ---------------------------------------------------------------- constants

\* bot.py:18
MARKETS == <<"R_10", "R_25", "R_50", "R_75", "R_100">>

MarketSet == {MARKETS[i] : i \in 1..Len(MARKETS)}

\* bot.py:201  (if len(market_ticks[symbol]) > 200)
Capacity == 200

\* bot.py:95   (if len(ticks) < 30)
MinSamples == 30

\* bot.py:137  (if len(market_ticks[market]) > 20)
PreFilter == 20

\* bot.py:106  (last_digits[-5:])
StreakWindow == 5

\* bot.py:111  (last_digits[-20:])
VolWindow == 20

\* Python's None (bot.py:34, 62, 96, 134).  A variable that may hold None
\* holds None or Some(x); Telegram's message ids are positive, so the truth
\* test of bot.py:79 is the test against None.
None == <<>>

Some(x) == <<x>>

Val(o) == o[1]

\* The order of the keys of the dict strength (bot.py:114-119).
SIGNALS == <<"Even", "Odd", "Over 3", "Under 6">>

\* ------------------------------------------------------------------- bounds

\* Ticks the feed delivers after the initial state, and calls of
\* fetch_and_analyze made by schedule_signals, in the runs of Spec.
MaxTicks == 2

MaxCycles == 2

\* The same in the runs of SpecFull.
MaxTicksFull == 1

MaxCyclesFull == 1

\* Ticks the feed delivers in the runs of SpecFeed.
MaxTicksFeed == 3

\* Resolution of the square root in the comparison of two confidences:
\* sqrt is bracketed to 1/SqrtScale.
SqrtScale == 200

\* Ticks delivered and calls of fetch_and_analyze made in the runs checked
\* for progress.
MaxTicksLive == 1

MaxCyclesLive == 2

\* The longest block of digits the buffers handed to analyze_market alone
\* repeat (every block of digits up to that length is tried).
MaxBlock == 3

\* Quotes (in hundredths) a tick may carry: 1234.5 and 1234.57
Quotes == {123450, 123457}

\* ---------------------------------------------------------------- variables

VARIABLES
    market_ticks,     \* bot.py:30   symbol -> list of quotes, oldest first
    active_messages,  \* bot.py:33   what the sends of the pre and main messages registered
    last_expired_id,  \* bot.py:34   id of the last expiry message, or None
    pc,               \* where the main thread is
    market,           \* index in MARKETS of the for loop of bot.py:136
    best_market,      \* bot.py:134
    best_signal,      \* bot.py:134
    best_confidence,  \* bot.py:134
    results,          \* symbol -> what analyze_market returned for it in this
                      \* call of fetch_and_analyze (the values of result, bot.py:138)
    it_idx,           \* index of the list iterator of bot.py:98
    last_digits,      \* bot.py:98
    read_vals,        \* the quotes the iterator of bot.py:98 has yielded
    entry_digit,      \* bot.py:164
    ws_pc,            \* where ws_thread is inside on_message
    ws_symbol,        \* bot.py:197
    ws_error,         \* the exception the last call of on_message raised, or None
    telegram,         \* the requests made to Telegram by the current call of
                      \* fetch_and_analyze, in order (emptied when a call starts)
    next_msg_id,      \* the id Telegram gives to the next message
    history,          \* symbol -> every quote the feed has delivered, in order
    feed_symbols,     \* the symbols the feed has ticks for in this run
    ticks_left,       \* ticks the feed still delivers in this run
    cycles_left       \* calls of fetch_and_analyze still made in this run

vars == <<market_ticks, active_messages, last_expired_id, pc, market,
          best_market, best_signal, best_confidence, results, it_idx,
          last_digits, read_vals, entry_digit, ws_pc, ws_symbol, ws_error, telegram,
          next_msg_id, history, feed_symbols, ticks_left, cycles_left>>

seq_vars == <<active_messages, last_expired_id, pc, market, best_market,
              best_signal, best_confidence, results, it_idx, last_digits,
              read_vals, entry_digit, telegram, next_msg_id, cycles_left>>

ws_vars == <<ws_pc, ws_symbol, ws_error, history, feed_symbols, ticks_left>>

\* ------------------------------------------------------------ pure helpers

\* int(str(t)[-1]) of a float with two decimals (bot.py:98): str() drops
\* trailing zeros but keeps one decimal, so 1234.50 prints as "1234.5" and
\* 1234.00 as "1234.0".
LastDigit(q) ==
    IF q % 100 = 0 THEN 0
    ELSE IF q % 10 = 0 THEN (q \div 10) % 10
    ELSE q % 10

\* sum(d % 2 == 0 for d in digits)   (bot.py:100, 107)
CountEven(digits) == Cardinality({i \in 1..Len(digits) : digits[i] % 2 = 0})

\* sum(d > 3 for d in digits)   (bot.py:102, 108)
CountOver3(digits) == Cardinality({i \in 1..Len(digits) : digits[i] > 3})

\* sum(d < 6 for d in digits)   (bot.py:103)
CountUnder6(digits) == Cardinality({i \in 1..Len(digits) : digits[i] < 6})

\* digits[-k:]
Tail_k(digits, k) ==
    IF Len(digits) <= k THEN digits
    ELSE SubSeq(digits, Len(digits) - k + 1, Len(digits))

RECURSIVE SumFrom(_, _)
SumFrom(digits, i) ==
    IF i > Len(digits) THEN 0 ELSE digits[i] + SumFrom(digits, i + 1)

RECURSIVE SumSqFrom(_, _)
SumSqFrom(digits, i) ==
    IF i > Len(digits) THEN 0
    ELSE digits[i] * digits[i] + SumSqFrom(digits, i + 1)

\* statistics.pstdev(xs) = sqrt(VarNum(xs)) / len(xs)   (bot.py:111)
VarNum(xs) == Len(xs) * SumSqFrom(xs, 1) - SumFrom(xs, 1) * SumFrom(xs, 1)

\* A confidence is the real number
\*     (num / (25 n)) / (1 + (sqrt(V) / L) / 10)
\* kept as the integers it is made of: num / (25 n) is the base ratio plus
\* 0.4 times the short-term bias, sqrt(V) / L is pstdev of the last L digits.
Conf(num, n, V, L) == [num |-> num, n |-> n, V |-> V, L |-> L]

\* Mutant of ZeroConf: the best confidence starts at 2.0.
ZeroConf_StartsAtTwo == Conf(50, 1, 0, 1)

\* best_confidence = 0 (bot.py:134)
ZeroConf == Conf(0, 1, 0, 1)

\* Mutant of StrengthNums: the short-term bias (streak) terms are left out.
StrengthNums_NoStreak(digits) ==
    LET n == Len(digits)
        even_count == CountEven(digits)
    IN  << 25 * even_count,
           25 * (n - even_count),
           25 * CountOver3(digits),
           25 * CountUnder6(digits) >>

\* The numerators over 25 n of the four entries of strength (bot.py:114-119),
\* in the order of the dict.
StrengthNums(digits) ==
    LET n == Len(digits)
        last5 == Tail_k(digits, StreakWindow)
        even_count == CountEven(digits)
        odd_count == n - even_count
        over3_count == CountOver3(digits)
        under6_count == CountUnder6(digits)
        k_even == CountEven(last5)
        k_over3 == CountOver3(last5)
    IN  << 25 * even_count + 2 * k_even * n,
           25 * odd_count + 2 * (StreakWindow - k_even) * n,
           25 * over3_count + 2 * k_over3 * n,
           25 * under6_count + 2 * (StreakWindow - k_over3) * n >>

\* Mutant of ArgMaxFirst: the last of the largest values wins.
ArgMaxFirst_LastWins(nums) ==
    CHOOSE i \in 1..Len(nums) :
        /\ \A j \in 1..Len(nums) : nums[j] <= nums[i]
        /\ \A j \in (i + 1)..Len(nums) : nums[j] < nums[i]

\* max(strength, key=strength.get): the first key, in the order of the dict,
\* whose value is the largest (bot.py:121).  The four values share their
\* denominator, so the numerators decide.
ArgMaxFirst(nums) ==
    CHOOSE i \in 1..Len(nums) :
        /\ \A j \in 1..Len(nums) : nums[j] <= nums[i]
        /\ \A j \in 1..(i - 1) : nums[j] < nums[i]

\* Lines 98-124 of analyze_market on the digits it has extracted: the pair
\* (best_signal, confidence).
ScoreDigits(digits) ==
    LET nums == StrengthNums(digits)
        i == ArgMaxFirst(nums)
        last20 == Tail_k(digits, VolWindow)
    IN  [signal |-> SIGNALS[i],
         confidence |-> Conf(nums[i], Len(digits), VarNum(last20), Len(last20))]

\* analyze_market(market, ticks), bot.py:87-124, run with no tick arriving in
\* between: None below MinSamples ticks, else the pair for the last digits.
analyze_market(ticks) ==
    IF Len(ticks) < MinSamples THEN None
    ELSE Some(ScoreDigits([i \in 1..Len(ticks) |-> LastDigit(ticks[i])]))

\* floor(sqrt(x)) by bisection on lo..hi, lo * lo <= x < (hi + 1) * (hi + 1)
ISqrtIn[x \in Nat, lo \in Nat, hi \in Nat] ==
    IF lo >= hi THEN lo
    ELSE LET mid == (lo + hi + 1) \div 2
         IN  IF mid * mid <= x THEN ISqrtIn[x, mid, hi]
             ELSE ISqrtIn[x, lo, mid - 1]

ISqrt(x) == ISqrtIn[x, 0, 46340]

\* a / b > c / d for a, c >= 0 and b, d > 0, by continued fractions (no
\* product that could leave 32 bits).
FracGT[a \in Nat, b \in Nat, c \in Nat, d \in Nat] ==
    LET qa == a \div b
        qc == c \div d
        ra == a % b
        rc == c % d
    IN  IF qa # qc THEN qa > qc
        ELSE IF ra = 0 THEN FALSE
        ELSE IF rc = 0 THEN TRUE
        ELSE FracGT[d, rc, b, ra]

\* c1 > c2 (bot.py:141).  The confidence is num * L / (n * (10 L + sqrt V))
\* up to the factor 10 / 25; sqrt V is bracketed to 1 / SqrtScale, exactly
\* when V is a square.
ConfGT(c1, c2) ==
    LET p1 == ISqrt(c1.V * SqrtScale * SqrtScale)
        p2 == ISqrt(c2.V * SqrtScale * SqrtScale)
        up1 == IF p1 * p1 = c1.V * SqrtScale * SqrtScale THEN 0 ELSE 1
        a1 == c1.num * c1.L * SqrtScale
        a2 == c2.num * c2.L * SqrtScale
    IN  IF c1.V = c2.V /\ c1.L = c2.L
        THEN c1.num * c2.n > c2.num * c1.n
        ELSE FracGT[a1, c1.n * (10 * c1.L * SqrtScale + p1 + up1),
                    a2, c2.n * (10 * c2.L * SqrtScale + p2)]

\* ------------------------------------------------------------ initial state

MarketIndex(symbol) == CHOOSE i \in 1..Len(MARKETS) : MARKETS[i] = symbol

\* The k-th quote the feed delivered for the i-th market before the initial
\* state (in hundredths).
FeedQuote(i, k) == 100000 + (((i % 3) * k * k + 7 * k) % 100)

Prefill(i, len) == [k \in 1..len |-> FeedQuote(i, k)]

\* A symbol of the feed that is not in MARKETS.
UnknownSymbol == "1HZ100V"

\* A scenario: how many ticks each market (in the order of MARKETS) has
\* received when the run starts, and the symbols the feed has ticks for
\* during the run.  Nothing received yet, or buffers just below and at the
\* thresholds of the selection.
Scenarios ==
    { [fill |-> <<0, 0, 0, 0, 0>>, live |-> {"R_75", UnknownSymbol}],
      [fill |-> <<0, 29, 0, 0, 0>>, live |-> {"R_25"}],
      [fill |-> <<20, 29, 30, 0, 0>>, live |-> {"R_10", "R_50"}],
      [fill |-> <<0, 30, 0, 0, 30>>, live |-> {"R_100"}] }

\* One buffer at its capacity, or one tick below; or nothing received yet.
ScenariosFull ==
    { [fill |-> <<0, 0, 0, 0, 0>>, live |-> {"R_10", UnknownSymbol}],
      [fill |-> <<Capacity - 1, 0, 0, 0, 0>>, live |-> {"R_10"}],
      [fill |-> <<Capacity, 0, 0, 0, 0>>, live |-> {"R_10"}] }

\* Buffers at and near their capacity, every symbol ticking.
ScenariosFeed ==
    { [fill |-> <<Capacity - 1, 0, Capacity, 0, Capacity - 2>>, live |-> MarketSet \cup {UnknownSymbol}] }

NoResults == [m \in MarketSet |-> None]

InitWith(scenarios, ticks, calls) ==
    /\ \E sc \in scenarios :
          /\ market_ticks =
                [m \in MarketSet |-> Prefill(MarketIndex(m), sc.fill[MarketIndex(m)])]
          /\ feed_symbols = sc.live
    /\ history = market_ticks
    /\ ticks_left = ticks
    /\ cycles_left = calls
    /\ active_messages = <<>>
    /\ last_expired_id = None
    /\ pc = "sleep"
    /\ market = 1
    /\ best_market = None
    /\ best_signal = None
    /\ best_confidence = ZeroConf
    /\ results = NoResults
    /\ it_idx = 0
    /\ last_digits = <<>>
    /\ read_vals = <<>>
    /\ entry_digit = None
    /\ ws_pc = "recv"
    /\ ws_symbol = None
    /\ ws_error = None
    /\ telegram = <<>>
    /\ next_msg_id = 1

Init == InitWith(Scenarios, MaxTicks, MaxCycles)

InitFull == InitWith(ScenariosFull, MaxTicksFull, MaxCyclesFull)

\* Nothing received yet, or one buffer holding MinSamples ticks.
ScenariosLive ==
    { [fill |-> <<0, 0, 0, 0, 0>>, live |-> {"R_75", UnknownSymbol}],
      [fill |-> <<0, MinSamples, 0, 0, 0>>, live |-> {"R_25"}] }

InitLive == InitWith(ScenariosLive, MaxTicksLive, MaxCyclesLive)

\* Only ws_thread runs.
InitFeed == InitWith(ScenariosFeed, MaxTicksFeed, 0)

\* ------------------------------------------------------------- ws_thread

\* on_message, bot.py:194-200: a tick arrives and is appended.
OnMessageAppend ==
    /\ ws_pc = "recv"
    /\ ticks_left > 0
    /\ \E symbol \in feed_symbols \cap MarketSet, quote \in Quotes :
          /\ market_ticks' = [market_ticks EXCEPT ![symbol] = Append(@, quote)]
          /\ history' = [history EXCEPT ![symbol] = Append(@, quote)]
          /\ ws_symbol' = symbol
    /\ ws_error' = None
    /\ UNCHANGED feed_symbols
    /\ ws_pc' = "appended"
    /\ ticks_left' = ticks_left - 1
    /\ UNCHANGED seq_vars

\* on_message, bot.py:192-199, for a tick whose symbol is not a key of
\* market_ticks: the subscript of bot.py:199 raises KeyError before anything
\* is appended, the exception leaves on_message, and run_forever, which
\* called it, goes on with the next message.
OnMessageUnknown ==
    /\ ws_pc = "recv"
    /\ ticks_left > 0
    /\ \E symbol \in feed_symbols \ MarketSet : ws_symbol' = symbol
    /\ ws_error' = Some("KeyError")
    /\ ws_pc' = "recv"
    /\ ticks_left' = ticks_left - 1
    /\ UNCHANGED <<market_ticks, history, feed_symbols>>
    /\ UNCHANGED seq_vars

\* run_websocket, bot.py:210-216: when the connection is lost run_forever
\* returns, run_websocket returns after it and ws_thread ends; nothing calls
\* run_websocket or subscribe_to_ticks again.
Disconnect ==
    /\ ws_pc = "recv"
    /\ ws_pc' = "closed"
    /\ UNCHANGED <<ws_symbol, ws_error, history, feed_symbols, ticks_left, market_ticks>>
    /\ UNCHANGED seq_vars

\* Mutant of OnMessageEvict: pop() instead of pop(0), the newest quote goes.
OnMessageEvict_PopsNewest ==
    /\ ws_pc = "appended"
    /\ market_ticks' =
          IF Len(market_ticks[ws_symbol]) > Capacity
          THEN [market_ticks EXCEPT ![ws_symbol] = SubSeq(@, 1, Len(@) - 1)]
          ELSE market_ticks
    /\ ws_pc' = "recv"
    /\ UNCHANGED <<ws_symbol, ws_error, history, feed_symbols, ticks_left>>
    /\ UNCHANGED seq_vars

\* on_message, bot.py:201-202: the oldest quote is dropped once the buffer
\* holds more than Capacity.
OnMessageEvict ==
    /\ ws_pc = "appended"
    /\ market_ticks' =
          IF Len(market_ticks[ws_symbol]) > Capacity
          THEN [market_ticks EXCEPT ![ws_symbol] = Tail(@)]
          ELSE market_ticks
    /\ ws_pc' = "recv"
    /\ UNCHANGED <<ws_symbol, ws_error, history, feed_symbols, ticks_left>>
    /\ UNCHANGED seq_vars

\* ----------------------------------------------------------- main thread

\* What the main thread leaves alone while it scans the markets.
msg_vars == <<active_messages, last_expired_id, telegram, next_msg_id, cycles_left, entry_digit>>

\* A deleteMessage request (bot.py:69-72, 80-83) as Telegram sees it.
DeleteRequest(msg_id) == [op |-> "deleteMessage", message_id |-> msg_id]

\* A sendPhoto request (bot.py:46-55) and the id of the message it made
\* (None when the response is not ok).
SendRequest(message, msg_id) == [op |-> "sendPhoto", caption |-> message, message_id |-> msg_id]

\* A request that raised instead of returning (requests.post has no
\* try/except around it anywhere in bot.py).
RaisedRequest(op, what) == [op |-> op, raised |-> what]

\* Mutant of FetchStart: the call of delete_last_expired is missing.
FetchStart_NoDelete ==
    /\ pc = "sleep"
    /\ cycles_left > 0
    /\ cycles_left' = cycles_left - 1
    /\ telegram' = <<>>
    /\ pc' = "scan"
    /\ market' = 1
    /\ best_market' = None
    /\ best_signal' = None
    /\ best_confidence' = ZeroConf
    /\ results' = NoResults
    /\ UNCHANGED <<active_messages, last_expired_id, next_msg_id, entry_digit, it_idx,
                   last_digits, read_vals, market_ticks>>
    /\ UNCHANGED ws_vars

\* delete_last_expired, bot.py:76-84, as called at bot.py:132, then the
\* initialisation of bot.py:134.  The request returns or raises.
FetchStart ==
    /\ pc = "sleep"
    /\ cycles_left > 0
    /\ cycles_left' = cycles_left - 1
    /\ \/ /\ last_expired_id # None
          /\ \/ /\ telegram' = <<DeleteRequest(last_expired_id)>>
                /\ last_expired_id' = None
                /\ pc' = "scan"
             \/ /\ telegram' = <<RaisedRequest("deleteMessage", last_expired_id)>>
                /\ UNCHANGED last_expired_id
                /\ pc' = "crashed"
       \/ /\ last_expired_id = None
          /\ telegram' = <<>>
          /\ UNCHANGED last_expired_id
          /\ pc' = "scan"
    /\ market' = 1
    /\ best_market' = None
    /\ best_signal' = None
    /\ best_confidence' = ZeroConf
    /\ results' = NoResults
    /\ UNCHANGED <<active_messages, next_msg_id, entry_digit, it_idx,
                   last_digits, read_vals, market_ticks>>
    /\ UNCHANGED ws_vars

\* bot.py:136-137: the next market of the loop and the pre-filter on the
\* length of its buffer.
PreFilterStep ==
    /\ pc = "scan"
    /\ market <= Len(MARKETS)
    /\ IF Len(market_ticks[MARKETS[market]]) > PreFilter
       THEN pc' = "analyze" /\ UNCHANGED market
       ELSE pc' = "scan" /\ market' = market + 1
    /\ UNCHANGED <<best_market, best_signal, best_confidence, results, it_idx,
                   last_digits, read_vals, market_ticks>>
    /\ UNCHANGED msg_vars
    /\ UNCHANGED ws_vars

\* Mutant of AnalyzeEntry: the floor of bot.py:95 is missing, every buffer
\* the pre-filter lets through is scored.
AnalyzeEntry_NoFloor ==
    /\ pc = "analyze"
    /\ pc' = "digits"
    /\ UNCHANGED <<market, results, it_idx, last_digits, read_vals>>
    /\ UNCHANGED <<best_market, best_signal, best_confidence, market_ticks>>
    /\ UNCHANGED msg_vars
    /\ UNCHANGED ws_vars

\* analyze_market, bot.py:95-96, and for a short buffer bot.py:139 on the
\* None it returns; for a long enough one the iterator of bot.py:98 starts.
AnalyzeEntry ==
    /\ pc = "analyze"
    /\ IF Len(market_ticks[MARKETS[market]]) < MinSamples
       THEN /\ pc' = "scan"
            /\ market' = market + 1
       ELSE /\ pc' = "digits"
            /\ UNCHANGED market
    /\ UNCHANGED <<results, it_idx, last_digits, read_vals>>
    /\ UNCHANGED <<best_market, best_signal, best_confidence, market_ticks>>
    /\ UNCHANGED msg_vars
    /\ UNCHANGED ws_vars

\* One round of the list comprehension of bot.py:98: the list iterator
\* yields ticks[it_idx] of the live list and moves on.
ReadDigit ==
    /\ pc = "digits"
    /\ it_idx < Len(market_ticks[MARKETS[market]])
    /\ LET t == market_ticks[MARKETS[market]][it_idx + 1]
       IN  /\ last_digits' = Append(last_digits, LastDigit(t))
           /\ read_vals' = Append(read_vals, t)
    /\ it_idx' = it_idx + 1
    /\ UNCHANGED <<pc, market, best_market, best_signal, best_confidence, results,
                   market_ticks>>
    /\ UNCHANGED msg_vars
    /\ UNCHANGED ws_vars

\* The list iterator of bot.py:98 finds its index at the end of the live
\* list and stops.
FinishDigits ==
    /\ pc = "digits"
    /\ it_idx >= Len(market_ticks[MARKETS[market]])
    /\ pc' = "score"
    /\ UNCHANGED <<market, best_market, best_signal, best_confidence, results,
                   it_idx, last_digits, read_vals, market_ticks>>
    /\ UNCHANGED msg_vars
    /\ UNCHANGED ws_vars

\* Mutant of Score: `>=` instead of `>` at bot.py:141, so the later of two
\* markets with equal confidence wins.
Score_LaterWinsTies ==
    /\ pc = "score"
    /\ \E r \in {ScoreDigits(last_digits)} :
           /\ results' = [results EXCEPT ![MARKETS[market]] = Some(r)]
           /\ IF ~ConfGT(best_confidence, r.confidence)
              THEN /\ best_confidence' = r.confidence
                   /\ best_signal' = Some(r.signal)
                   /\ best_market' = Some(MARKETS[market])
              ELSE UNCHANGED <<best_confidence, best_signal, best_market>>
    /\ market' = market + 1
    /\ pc' = "scan"
    /\ it_idx' = 0
    /\ last_digits' = <<>>
    /\ read_vals' = <<>>
    /\ UNCHANGED market_ticks
    /\ UNCHANGED msg_vars
    /\ UNCHANGED ws_vars

\* The rest of analyze_market, bot.py:100-124, whose locals end with it, and
\* what the loop does with the pair it returns, bot.py:139-144.
Score ==
    /\ pc = "score"
    /\ \E r \in {ScoreDigits(last_digits)} :
           /\ results' = [results EXCEPT ![MARKETS[market]] = Some(r)]
           /\ IF ConfGT(r.confidence, best_confidence)
              THEN /\ best_confidence' = r.confidence
                   /\ best_signal' = Some(r.signal)
                   /\ best_market' = Some(MARKETS[market])
              ELSE UNCHANGED <<best_confidence, best_signal, best_market>>
    /\ market' = market + 1
    /\ pc' = "scan"
    /\ it_idx' = 0
    /\ last_digits' = <<>>
    /\ read_vals' = <<>>
    /\ UNCHANGED market_ticks
    /\ UNCHANGED msg_vars
    /\ UNCHANGED ws_vars

\* Mutant of send_telegram_message: keep is ignored, every id is registered.
send_telegram_message_IgnoresKeep(message, keep, msg_id) ==
    /\ telegram' = Append(telegram, SendRequest(message, msg_id))
    /\ next_msg_id' = IF msg_id # None THEN next_msg_id + 1 ELSE next_msg_id
    /\ active_messages' =
          IF msg_id # None
          THEN Append(active_messages, msg_id)
          ELSE active_messages

\* Mutant of send_telegram_message: resp.ok is not tested, what the send
\* returned is registered even when it is None.
send_telegram_message_NoOkTest(message, keep, msg_id) ==
    /\ telegram' = Append(telegram, SendRequest(message, msg_id))
    /\ next_msg_id' = IF msg_id # None THEN next_msg_id + 1 ELSE next_msg_id
    /\ active_messages' =
          IF ~keep
          THEN Append(active_messages, msg_id)
          ELSE active_messages

\* send_telegram_message, bot.py:37-62, when requests.post returns: the
\* request Telegram sees, the id registered unless keep, and the value
\* returned (msg_id, which is None when the response is not ok).
send_telegram_message(message, keep, msg_id) ==
    /\ telegram' = Append(telegram, SendRequest(message, msg_id))
    /\ next_msg_id' = IF msg_id # None THEN next_msg_id + 1 ELSE next_msg_id
    /\ active_messages' =
          IF msg_id # None /\ ~keep
          THEN Append(active_messages, msg_id)
          ELSE active_messages

\* The outcomes of a send that returns: Telegram made the message and gave
\* it the next id, or the response is not ok.
SendOutcomes == {Some(next_msg_id), None}

\* A request raises: the exception leaves fetch_and_analyze and
\* schedule_signals, and the main thread ends.
Raise(op, what) ==
    /\ telegram' = Append(telegram, RaisedRequest(op, what))
    /\ pc' = "crashed"
    /\ UNCHANGED <<active_messages, last_expired_id, next_msg_id, entry_digit>>

scan_vars == <<market, best_market, best_signal, best_confidence, results,
               it_idx, last_digits, read_vals>>

\* bot.py:146 with no market chosen: fetch_and_analyze returns and
\* schedule_signals sleeps (bot.py:222).
SkipCycle ==
    /\ pc = "scan"
    /\ market > Len(MARKETS)
    /\ best_market = None
    /\ pc' = "sleep"
    /\ UNCHANGED scan_vars
    /\ UNCHANGED msg_vars
    /\ UNCHANGED market_ticks
    /\ UNCHANGED ws_vars

\* Mutant of SendPre: the test of bot.py:146 is missing.
SendPre_NoTest ==
    /\ pc = "scan"
    /\ market > Len(MARKETS)
    /\ \/ \E msg_id \in SendOutcomes :
             /\ send_telegram_message([kind |-> "pre"], FALSE, msg_id)
             /\ pc' = "dwell_pre"
             /\ UNCHANGED <<last_expired_id, entry_digit>>
       \/ Raise("sendPhoto", [kind |-> "pre"])
    /\ UNCHANGED scan_vars
    /\ UNCHANGED <<cycles_left, market_ticks>>
    /\ UNCHANGED ws_vars

\* bot.py:146-161: the pre-alert is sent, then the thread sleeps 60 s.
SendPre ==
    /\ pc = "scan"
    /\ market > Len(MARKETS)
    /\ best_market # None
    /\ \/ \E msg_id \in SendOutcomes :
             /\ send_telegram_message([kind |-> "pre"], FALSE, msg_id)
             /\ pc' = "dwell_pre"
             /\ UNCHANGED <<last_expired_id, entry_digit>>
       \/ Raise("sendPhoto", [kind |-> "pre"])
    /\ UNCHANGED scan_vars
    /\ UNCHANGED <<cycles_left, market_ticks>>
    /\ UNCHANGED ws_vars

\* Mutant of SendMain: the entry digit is read from the oldest tick of the
\* buffer ([0] for [-1] at bot.py:164).
SendMain_OldestTick ==
    /\ pc = "dwell_pre"
    /\ LET ticks == market_ticks[Val(best_market)]
           digit == IF ticks # <<>> THEN Some(LastDigit(ticks[1])) ELSE None
           message == [kind |-> "main", market |-> Val(best_market),
                       signal |-> Val(best_signal), entry_digit |-> digit,
                       confidence |-> best_confidence]
       IN  \/ \E msg_id \in SendOutcomes :
                /\ send_telegram_message(message, FALSE, msg_id)
                /\ entry_digit' = digit
                /\ pc' = "dwell_main"
                /\ UNCHANGED last_expired_id
           \/ Raise("sendPhoto", message)
    /\ UNCHANGED scan_vars
    /\ UNCHANGED <<cycles_left, market_ticks>>
    /\ UNCHANGED ws_vars

\* Mutant of SendMain: the entry digit is taken with pop(), which removes
\* the tick from the buffer.
SendMain_PopsTick ==
    /\ pc = "dwell_pre"
    /\ LET ticks == market_ticks[Val(best_market)]
           digit == IF ticks # <<>> THEN Some(LastDigit(ticks[Len(ticks)])) ELSE None
           message == [kind |-> "main", market |-> Val(best_market),
                       signal |-> Val(best_signal), entry_digit |-> digit,
                       confidence |-> best_confidence]
       IN  /\ market_ticks' = [market_ticks EXCEPT ![Val(best_market)] =
                                  SubSeq(@, 1, Len(@) - 1)]
           /\ \/ \E msg_id \in SendOutcomes :
                   /\ send_telegram_message(message, FALSE, msg_id)
                   /\ entry_digit' = digit
                   /\ pc' = "dwell_main"
                   /\ UNCHANGED last_expired_id
              \/ Raise("sendPhoto", message)
    /\ UNCHANGED scan_vars
    /\ UNCHANGED cycles_left
    /\ UNCHANGED ws_vars

\* bot.py:164-176: the entry digit is read from the live buffer, the main
\* signal is sent, then the thread sleeps 180 s.
SendMain ==
    /\ pc = "dwell_pre"
    /\ LET ticks == market_ticks[Val(best_market)]
           digit == IF ticks # <<>> THEN Some(LastDigit(ticks[Len(ticks)])) ELSE None
           message == [kind |-> "main", market |-> Val(best_market),
                       signal |-> Val(best_signal), entry_digit |-> digit,
                       confidence |-> best_confidence]
       IN  \/ \E msg_id \in SendOutcomes :
                /\ send_telegram_message(message, FALSE, msg_id)
                /\ entry_digit' = digit
                /\ pc' = "dwell_main"
                /\ UNCHANGED last_expired_id
           \/ Raise("sendPhoto", message)
    /\ UNCHANGED scan_vars
    /\ UNCHANGED <<cycles_left, market_ticks>>
    /\ UNCHANGED ws_vars

\* bot.py:179-188: the expiry message is sent with keep=True and its id (or
\* None) becomes last_expired_id, then the thread sleeps 30 s.
SendExpiry ==
    /\ pc = "dwell_main"
    /\ LET message == [kind |-> "expiry", market |-> Val(best_market)]
       IN  \/ \E msg_id \in SendOutcomes :
                /\ send_telegram_message(message, TRUE, msg_id)
                /\ last_expired_id' = msg_id
                /\ pc' = "dwell_expiry"
                /\ UNCHANGED entry_digit
           \/ Raise("sendPhoto", message)
    /\ UNCHANGED scan_vars
    /\ UNCHANGED <<cycles_left, market_ticks>>
    /\ UNCHANGED ws_vars

\* The requests of the loop of bot.py:68-72 over msgs.
DeleteRequests(msgs) == [i \in 1..Len(msgs) |-> DeleteRequest(msgs[i])]

\* Mutant of DeleteMessages: the list is not emptied after the requests (the
\* assignment of bot.py:73 without the global statement of bot.py:67).
DeleteMessages_KeepsList ==
    /\ pc = "dwell_expiry"
    /\ \/ /\ telegram' = telegram \o DeleteRequests(active_messages)
          /\ pc' = "sleep"
       \/ \E k \in 1..Len(active_messages) :
             /\ telegram' = (telegram \o DeleteRequests(SubSeq(active_messages, 1, k - 1)))
                                \o <<RaisedRequest("deleteMessage", active_messages[k])>>
             /\ pc' = "crashed"
    /\ UNCHANGED active_messages
    /\ UNCHANGED scan_vars
    /\ UNCHANGED <<last_expired_id, next_msg_id, entry_digit, cycles_left, market_ticks>>
    /\ UNCHANGED ws_vars

\* delete_messages, bot.py:65-73, as called at bot.py:189, then the return to
\* schedule_signals and its sleep (bot.py:222).  Every request returns, or
\* the k-th raises and the list is not cleared.
DeleteMessages ==
    /\ pc = "dwell_expiry"
    /\ \/ /\ telegram' = telegram \o DeleteRequests(active_messages)
          /\ active_messages' = <<>>
          /\ pc' = "sleep"
       \/ \E k \in 1..Len(active_messages) :
             /\ telegram' = (telegram \o DeleteRequests(SubSeq(active_messages, 1, k - 1)))
                                \o <<RaisedRequest("deleteMessage", active_messages[k])>>
             /\ pc' = "crashed"
             /\ UNCHANGED active_messages
    /\ UNCHANGED scan_vars
    /\ UNCHANGED <<last_expired_id, next_msg_id, entry_digit, cycles_left, market_ticks>>
    /\ UNCHANGED ws_vars

\* ------------------------------------------------------------ specification

\* The steps of ws_thread (run_websocket, bot.py:210-216, and the on_message
\* it registers).
WsNext ==
    \/ OnMessageAppend
    \/ OnMessageEvict
    \/ OnMessageUnknown
    \/ Disconnect

Next ==
    \/ OnMessageAppend
    \/ OnMessageEvict
    \/ OnMessageUnknown
    \/ Disconnect
    \/ FetchStart
    \/ PreFilterStep
    \/ AnalyzeEntry
    \/ ReadDigit
    \/ FinishDigits
    \/ Score
    \/ SkipCycle
    \/ SendPre
    \/ SendMain
    \/ SendExpiry
    \/ DeleteMessages

\* The run from buffers at the thresholds of the selection.
Spec == Init /\ [][Next]_vars

\* The run from a buffer at its capacity, or one tick below.
SpecFull == InitFull /\ [][Next]_vars

\* The steps of the main thread (schedule_signals, bot.py:219-222, and the
\* fetch_and_analyze it calls).
MainNext ==
    \/ FetchStart
    \/ PreFilterStep
    \/ AnalyzeEntry
    \/ ReadDigit
    \/ FinishDigits
    \/ Score
    \/ SkipCycle
    \/ SendPre
    \/ SendMain
    \/ SendExpiry
    \/ DeleteMessages

\* The run in which the main thread keeps running: it is a thread of its
\* own, every time.sleep returns and every request returns or raises.
SpecLive == InitLive /\ [][Next]_vars /\ WF_vars(MainNext)

\* ws_thread alone, from buffers at and near their capacity.
NextFeed ==
    \/ OnMessageAppend
    \/ OnMessageEvict
    \/ OnMessageUnknown
    \/ Disconnect

SpecFeed == InitFeed /\ [][NextFeed]_vars

\* analyze_market alone, on buffers that repeat a block of digits.

\* The blocks of digits: every one up to MaxBlock long, and 0,2,4,6,8.
Blocks == (UNION {[1..k -> 0..9] : k \in 1..MaxBlock}) \cup {<<0, 2, 4, 6, 8>>}

\* The lengths of the buffers: around MinSamples, and Capacity.
BlockLengths == {MinSamples - 1, MinSamples, MinSamples + 1, Capacity}

\* A quote (in hundredths) whose str() ends with the digit d; the k-th quote
\* of a buffer has one decimal when k is even and d is not 0.
QuoteOfDigit(d, k) ==
    IF d = 0 THEN 100000 + 100 * (k % 7)
    ELSE IF k % 2 = 0 THEN 100000 + 10 * d
    ELSE 100010 + d

\* len quotes whose last digits repeat the block.
BlockTicks(block, len) ==
    [k \in 1..len |-> QuoteOfDigit(block[((k - 1) % Len(block)) + 1], k)]

InitScore ==
    /\ \E block \in Blocks, len \in BlockLengths :
          market_ticks = [m \in MarketSet |->
                             IF m = MARKETS[1] THEN BlockTicks(block, len) ELSE <<>>]
    /\ history = market_ticks
    /\ feed_symbols = {}
    /\ ticks_left = 0
    /\ cycles_left = 0
    /\ active_messages = <<>>
    /\ last_expired_id = None
    /\ pc = "call"
    /\ market = 1
    /\ best_market = None
    /\ best_signal = None
    /\ best_confidence = ZeroConf
    /\ results = NoResults
    /\ it_idx = 0
    /\ last_digits = <<>>
    /\ read_vals = <<>>
    /\ entry_digit = None
    /\ ws_pc = "recv"
    /\ ws_symbol = None
    /\ ws_error = None
    /\ telegram = <<>>
    /\ next_msg_id = 1

\* result = analyze_market(market, market_ticks[market])   (bot.py:138)
AnalyzeCall ==
    /\ pc = "call"
    /\ results' = [results EXCEPT ![MARKETS[market]] =
                                     analyze_market(market_ticks[MARKETS[market]])]
    /\ pc' = "returned"
    /\ UNCHANGED <<market_ticks, market, best_market, best_signal, best_confidence,
                   it_idx, last_digits, read_vals>>
    /\ UNCHANGED msg_vars
    /\ UNCHANGED ws_vars

NextScore == AnalyzeCall

SpecScore == InitScore /\ [][NextScore]_vars

\* ------------------------------------------------- reading the request log

Returned(r) == "raised" \notin DOMAIN r

IsSend(r) == r.op = "sendPhoto" /\ Returned(r)

IsDelete(r) == r.op = "deleteMessage" /\ Returned(r)

\* The sends of this call of fetch_and_analyze that returned, in order.
Sends == SelectSeq(telegram, IsSend)

Kinds(sends) == [i \in 1..Len(sends) |-> sends[i].caption.kind]

\* The place of the expiry send in the log (0 when there is none).
ExpiryAt ==
    IF \E i \in 1..Len(telegram) : IsSend(telegram[i]) /\ telegram[i].caption.kind = "expiry"
    THEN CHOOSE i \in 1..Len(telegram) :
            IsSend(telegram[i]) /\ telegram[i].caption.kind = "expiry"
    ELSE 0

\* The requests made after the expiry send: those of delete_messages.
CleanupRequests == SubSeq(telegram, ExpiryAt + 1, Len(telegram))

\* fetch_and_analyze went through a whole cycle and returned.
CycleCompleted == pc = "sleep" /\ ExpiryAt > 0

\* The handles that are present among ids, in order.
IsPresent(id) == id # None

Present(ids) == SelectSeq(ids, IsPresent)

\* Every attempt to send a message of this kind, returned or raised.
Attempts(kind) ==
    {i \in 1..Len(telegram) :
        /\ telegram[i].op = "sendPhoto"
        /\ IF Returned(telegram[i]) THEN telegram[i].caption.kind = kind
           ELSE telegram[i].raised.kind = kind}

\* The attempts that failed: the response was not ok, or the request raised.
FailedAttempts(kind) ==
    {i \in Attempts(kind) : Returned(telegram[i]) => telegram[i].message_id = None}

\* delete_messages has been entered in this call of fetch_and_analyze.
CleanupReached ==
    \/ CycleCompleted
    \/ /\ pc = "crashed"
       /\ ExpiryAt > 0
       /\ telegram[Len(telegram)].op = "deleteMessage"

\* h[-n:], the last n elements of h
LastN(h, n) == SubSeq(h, Len(h) - n + 1, Len(h))

Min(a, b) == IF a <= b THEN a ELSE b

\* What a buffer holds once the pushes of the quotes of h have completed.
Window(h) == LastN(h, Min(Len(h), Capacity))

\* The contents the buffer of a symbol has had between two completed pushes.
Contents(symbol) ==
    {Window(SubSeq(history[symbol], 1, k)) : k \in 0..Len(history[symbol])}

\* The markets analyze_market returned a signal for in this scan, and the
\* markets whose buffer holds at least MinSamples ticks.
Scored == {m \in MarketSet : results[m] # None}

LongEnough == {m \in MarketSet : Len(market_ticks[m]) >= MinSamples}

EndOfScan == pc = "scan" /\ market > Len(MARKETS)

\* ------------------------------------------------------------------ claims

\* C1 as stated: in every completed cycle exactly 3 notifications are sent,
\* in the order pre-alert, main signal, expiry, and Cleanup requests the
\* deletion of exactly 2 handles, those of the pre-alert and of the main
\* signal, after which the transient set is empty.
C1_Original ==
    CycleCompleted =>
        /\ Kinds(Sends) = <<"pre", "main", "expiry">>
        /\ Len(CleanupRequests) = 2
        /\ CleanupRequests = <<DeleteRequest(Sends[1].message_id),
                               DeleteRequest(Sends[2].message_id)>>
        /\ active_messages = <<>>

\* C1 as amended: in every completed cycle exactly 3 sends are made, in the
\* order pre-alert, main signal, expiry, and Cleanup requests the deletion of
\* exactly the handles that the pre-alert and the main-signal sends returned
\* (2 when both sends succeeded, fewer when one failed) and of no other
\* handle, after which the transient set is empty.
C1_CycleSendsAndCleanup ==
    CycleCompleted =>
        /\ Kinds(Sends) = <<"pre", "main", "expiry">>
        /\ CleanupRequests =
              DeleteRequests(Present(<<Sends[1].message_id, Sends[2].message_id>>))
        /\ (Sends[1].message_id # None /\ Sends[2].message_id # None
               => Len(CleanupRequests) = 2)
        /\ active_messages = <<>>

\* A cycle has completed in which the three sends succeeded and Cleanup made
\* its two requests.
C1_Witness ==
    /\ CycleCompleted
    /\ \A i \in 1..3 : Sends[i].message_id # None
    /\ Len(CleanupRequests) = 2

\* C2: Cleanup never requests the deletion of the expiry handle of its own
\* cycle; the handle stays in last_expired_id through Cleanup and the return
\* to schedule_signals; the next call of fetch_and_analyze starts with the
\* delete request for it and clears it, before it selects a market and
\* before it sends anything.
C2_Retained ==
    /\ ExpiryAt > 0 =>
          /\ \A i \in 1..Len(CleanupRequests) :
                telegram[ExpiryAt].message_id # None
                  => CleanupRequests[i] # DeleteRequest(telegram[ExpiryAt].message_id)
          /\ last_expired_id = telegram[ExpiryAt].message_id
    /\ pc \in {"scan", "analyze", "digits", "score", "dwell_pre", "dwell_main"} =>
          /\ last_expired_id = None
          /\ \A i \in 1..Len(telegram) : IsDelete(telegram[i]) => i = 1

C2_DeletedAtStart ==
    pc = "sleep" /\ pc' # "sleep" /\ last_expired_id # None =>
        \/ /\ pc' = "scan"
           /\ market' = 1
           /\ best_market' = None
           /\ telegram' = <<DeleteRequest(last_expired_id)>>
           /\ last_expired_id' = None
        \/ /\ pc' = "crashed"
           /\ telegram' = <<RaisedRequest("deleteMessage", last_expired_id)>>

\* C2: in every state the expiry handle is retained and untouched by
\* Cleanup, and every start of a call of fetch_and_analyze that finds a
\* retained handle requests its deletion first and clears it.
C2_ExpiryHandle == [](C2_Retained) /\ [][C2_DeletedAtStart]_vars

\* The second call of fetch_and_analyze has deleted the expiry message of
\* the first and has sent its pre-alert.
C2_Witness ==
    /\ pc = "dwell_pre"
    /\ Len(telegram) = 2
    /\ IsDelete(telegram[1])
    /\ telegram[1].message_id # None
    /\ last_expired_id = None

\* C3 as stated: the buffer of every instrument holds at most Capacity
\* quotes in every reachable state, the states between the append and the
\* eviction of a tick included.
C3_Original == \A m \in MarketSet : Len(market_ticks[m]) <= Capacity

\* C4: once every push has completed, the buffer of each instrument holds
\* the last min(n, Capacity) of the n quotes delivered for it, oldest first.
C4_FifoWindow ==
    ws_pc = "recv" => \A m \in MarketSet : market_ticks[m] = Window(history[m])

\* A full buffer has completed two pushes.
C4_Witness ==
    /\ ws_pc = "recv"
    /\ Len(history["R_50"]) = Capacity + 2
    /\ Len(market_ticks["R_50"]) = Capacity

\* C5 as stated: the sequence of quotes analyze_market has read from a
\* buffer is the content the buffer had at one point between two completed
\* pushes.
C5_Original == pc = "score" => read_vals \in Contents(MARKETS[market])

\* C6 as stated: once the send of the main signal has failed, the expiry
\* send is still attempted and Cleanup is still reached: the main thread is
\* never past the point of the expiry send without having attempted it, nor
\* past the point of Cleanup without having entered it.
C6_Original ==
    FailedAttempts("main") # {} =>
        /\ pc = "dwell_main" \/ Attempts("expiry") # {}
        /\ pc \in {"dwell_main", "dwell_expiry"} \/ CleanupReached

\* C7: a send that returns None registers nothing, every registered handle
\* is an id Telegram gave to a message, and no delete request is made for
\* None.
C7_Registered ==
    /\ \A i \in 1..Len(active_messages) :
          active_messages[i] # None /\ Val(active_messages[i]) \in 1..(next_msg_id - 1)
    /\ last_expired_id # None => Val(last_expired_id) \in 1..(next_msg_id - 1)
    /\ \A i \in 1..Len(telegram) :
          telegram[i].op = "deleteMessage" =>
              IF Returned(telegram[i]) THEN telegram[i].message_id # None
              ELSE telegram[i].raised # None

C7_FailedSendRegistersNothing ==
    /\ Len(telegram') = Len(telegram) + 1
    /\ IsSend(telegram'[Len(telegram')])
    /\ telegram'[Len(telegram')].message_id = None
    => /\ active_messages' = active_messages
       /\ last_expired_id' = None

\* C7: in every state only ids of messages Telegram made are registered or
\* requested for deletion, and every send that returns None leaves the
\* transient list as it was and the retained handle None.
C7_AbsentHandles == [](C7_Registered) /\ [][C7_FailedSendRegistersNothing]_vars

\* A cycle has completed in which the pre-alert was sent, the main and the
\* expiry sends failed, and Cleanup made its one request.
C7_Witness ==
    /\ CycleCompleted
    /\ Sends[1].message_id # None
    /\ Sends[2].message_id = None
    /\ Sends[3].message_id = None
    /\ last_expired_id = None
    /\ CleanupRequests = <<DeleteRequest(Sends[1].message_id)>>

\* C8: while the markets are scanned nothing has been sent and nothing is
\* registered; when the scan ends with no signal for any instrument, the
\* next step of the main thread is the return to schedule_signals, with no
\* request made and no handle changed; and from its sleep schedule_signals
\* calls fetch_and_analyze again.
C8_NothingSentInScan ==
    /\ pc \in {"scan", "analyze", "digits", "score"} =>
          /\ Attempts("pre") = {}
          /\ Sends = <<>>
          /\ active_messages = <<>>
    /\ pc = "sleep" /\ cycles_left > 0 => ENABLED FetchStart

C8_SkipStep ==
    EndOfScan /\ Scored = {} /\ pc' # pc =>
        /\ pc' = "sleep"
        /\ telegram' = telegram
        /\ active_messages' = active_messages
        /\ last_expired_id' = last_expired_id
        /\ next_msg_id' = next_msg_id

\* C8: a scan that ends with no signal is followed by the return to
\* schedule_signals with nothing sent and no handle changed, and
\* schedule_signals calls fetch_and_analyze again.
C8_SkippedCycle == [](C8_NothingSentInScan) /\ [][C8_SkipStep]_vars

\* A call of fetch_and_analyze has returned without a send, and another
\* call is still to come.
C8_Witness ==
    /\ pc = "sleep"
    /\ cycles_left = MaxCycles - 1
    /\ Scored = {}
    /\ telegram = <<>>
    /\ market > Len(MARKETS)

\* C9: analyze_market returns None for a buffer of fewer than MinSamples
\* ticks and a signal for any other, so a market with a result, and the
\* market chosen, holds at least MinSamples ticks.
C9_ScoredIsLongEnough ==
    /\ best_market # None => Val(best_market) \in LongEnough
    /\ Scored \subseteq LongEnough

C9_AnalyzeReturn ==
    /\ pc = "analyze" /\ pc' # "analyze" =>
          IF Len(market_ticks[MARKETS[market]]) < MinSamples
          THEN /\ pc' = "scan"
               /\ market' = market + 1
               /\ results'[MARKETS[market]] = None
               /\ best_market' = best_market
          ELSE pc' = "digits"
    /\ pc = "score" /\ pc' # "score" => results'[MARKETS[market]] # None

\* C9: analyze_market returns None exactly for the buffers of fewer than
\* MinSamples ticks, and every market scored or chosen holds at least
\* MinSamples ticks.
C9_SampleFloor == [](C9_ScoredIsLongEnough) /\ [][C9_AnalyzeReturn]_vars

\* R_50 has been announced while R_25, which the pre-filter lets through
\* with its 29 ticks, got no result.
C9_Witness ==
    /\ pc = "dwell_pre"
    /\ best_market = Some("R_50")
    /\ Len(market_ticks["R_25"]) = MinSamples - 1
    /\ results["R_25"] = None

\* C10: at the end of a scan in which exactly one market got a signal (or
\* exactly one holds MinSamples ticks and got a signal), that market is the
\* one chosen, with its signal and its confidence.
C10_OnlyScoredIsChosen ==
    EndOfScan =>
        \A m \in MarketSet :
            (Scored = {m} \/ (LongEnough = {m} /\ m \in Scored)) =>
                /\ best_market = Some(m)
                /\ best_signal = Some(Val(results[m]).signal)
                /\ best_confidence = Val(results[m]).confidence

\* A scan has ended with R_50 alone scored, and chosen.
C10_Witness ==
    /\ EndOfScan
    /\ Scored = {"R_50"}
    /\ LongEnough = {"R_50"}
    /\ best_market = Some("R_50")

\* The confidence analyze_market returned for a market in this scan.
ConfOf(m) == Val(results[m]).confidence

\* C11: at the end of a scan in which some market got a signal, the chosen
\* market is a scored one whose confidence no scored market exceeds, its
\* signal and confidence are the ones analyze_market returned for it, and
\* every scored market before it in MARKETS has a strictly smaller
\* confidence (on a tie the first in the order R_10, R_25, R_50, R_75,
\* R_100 is the one chosen).
C11_MaxFirstInOrder ==
    (EndOfScan /\ Scored # {}) =>
        \E m \in Scored :
            /\ best_market = Some(m)
            /\ best_signal = Some(Val(results[m]).signal)
            /\ best_confidence = ConfOf(m)
            /\ \A o \in Scored : ~ConfGT(ConfOf(o), ConfOf(m))
            /\ \A o \in Scored :
                  MarketIndex(o) < MarketIndex(m) => ConfGT(ConfOf(m), ConfOf(o))

\* A scan has ended with R_25 and R_100 scored at the same confidence, and
\* R_25, the earlier of the two, chosen.
C11_Witness ==
    /\ EndOfScan
    /\ Scored = {"R_25", "R_100"}
    /\ ConfOf("R_25") = ConfOf("R_100")
    /\ best_market = Some("R_25")

\* The last digits of the buffer analyze_market was called on, its strength
\* numerators, and what it returned.
CallDigits == [i \in 1..Len(market_ticks[MARKETS[1]]) |->
                  LastDigit(market_ticks[MARKETS[1]][i])]

CallResult == Val(results[MARKETS[1]])

AllEven(digits) == \A i \in 1..Len(digits) : digits[i] % 2 = 0

\* C12: analyze_market called on a buffer of at least MinSamples ticks whose
\* last digits are all even returns "Even", with a confidence whose
\* numerator is 1.4 (35 n over 25 n) and exceeds that of "Odd", which is 0;
\* also when "Over 3" or "Under 6" has the same score.
C12_AllEvenIsEven ==
    (/\ pc = "returned"
     /\ Len(CallDigits) >= MinSamples
     /\ AllEven(CallDigits)) =>
        /\ results[MARKETS[1]] # None
        /\ CallResult.signal = "Even"
        /\ CallResult.confidence.num = 35 * Len(CallDigits)
        /\ CallResult.confidence.n = Len(CallDigits)
        /\ StrengthNums(CallDigits)[2] = 0
        /\ CallResult.confidence.num > StrengthNums(CallDigits)[2]

\* analyze_market has returned "Even" for 200 even digits all above 3, whose
\* "Over 3" score equals the "Even" score.
C12_Witness ==
    /\ pc = "returned"
    /\ Len(CallDigits) = Capacity
    /\ AllEven(CallDigits)
    /\ \A i \in 1..Len(CallDigits) : CallDigits[i] > 3
    /\ StrengthNums(CallDigits)[3] = StrengthNums(CallDigits)[1]
    /\ CallResult.signal = "Even"

\* 1,2 repeated 15 times.
Alternating12 == [k \in 1..MinSamples |-> IF k % 2 = 1 THEN 1 ELSE 2]

\* The digits analyze_market was called on have as many even as odd ones.
Balanced(digits) == 2 * CountEven(digits) = Len(digits)

\* |a - b|
AbsDiff(a, b) == IF a >= b THEN a - b ELSE b - a

\* C17 as stated: for 1,2 repeated 15 times the "Even" and the "Odd" score
\* are within a small epsilon of each other, here 1/100.  The scores are
\* num / (25 n) / (1 + sqrt(V) / (10 L)), and V is a square for this buffer.
C17_Original ==
    (pc = "returned" /\ CallDigits = Alternating12) =>
        LET nums == StrengthNums(CallDigits)
            last20 == Tail_k(CallDigits, VolWindow)
            L == Len(last20)
            root == ISqrt(VarNum(last20))
        IN  100 * AbsDiff(nums[1], nums[2]) * 10 * L
                <= 25 * Len(CallDigits) * (10 * L + root)

\* C17, amended: for 1,2 repeated 15 times the base ratios of "Even" and
\* "Odd" are equal (15 of 30 each) but 3 of the last 5 digits are even, so
\* the scores are 0.74 / 1.05 and 0.66 / 1.05 (numerators 555 and 495 over
\* 750, pstdev 10 / 20), "Even" is strictly above "Odd" with no tie to
\* break, and what is returned is "Under 6" at 1.4 / 1.05.  On any balanced
\* buffer of at least MinSamples digits the two numerators differ by at least 2 n
\* (0.08 before damping), the window of the bias being 5 digits long.
C17_EvenOddApart ==
    (pc = "returned" /\ Len(CallDigits) >= MinSamples /\ Balanced(CallDigits)) =>
        LET nums == StrengthNums(CallDigits)
            n == Len(CallDigits)
        IN  /\ AbsDiff(nums[1], nums[2]) >= 2 * n
            /\ CallDigits = Alternating12 =>
                  /\ nums[1] = 555
                  /\ nums[2] = 495
                  /\ CallResult.signal = "Under 6"
                  /\ CallResult.confidence = Conf(1050, 30, 100, 20)

\* analyze_market has returned for 1,2 repeated 15 times.
C17_Witness ==
    /\ pc = "returned"
    /\ CallDigits = Alternating12
    /\ results[MARKETS[1]] # None
    /\ CallResult.signal = "Under 6"

\* C15 as stated: no call of on_message raises an error, whatever the symbol
\* of the tick (buffers unchanged and the next message processed do hold).
C15_Original == ws_error = None

\* C16 as stated, in the form a finite run refutes: a disconnected ingestor
\* can still take a step (reconnect, subscribe, append a tick).
C16_Original == ws_pc = "closed" => ENABLED WsNext

\* The handles the sends of the current call of fetch_and_analyze returned.
SentHandles == {Sends[i].message_id : i \in 1..Len(Sends)} \ {None}

\* The handle a request of the log is about (returned or raised).
HandleOf(r) == IF Returned(r) THEN r.message_id ELSE r.raised

\* The previous call of fetch_and_analyze sent nothing, or went through its
\* three sends and the whole of Cleanup.
PreviousCallDone ==
    \/ Sends = <<>>
    \/ /\ Kinds(Sends) = <<"pre", "main", "expiry">>
       /\ CleanupRequests =
             DeleteRequests(Present(<<Sends[1].message_id, Sends[2].message_id>>))

\* C13, the steps: a call of fetch_and_analyze starts only from the sleep
\* of schedule_signals, with no transient handle outstanding and the
\* previous call done with its Cleanup.
C13_StartsAfterCleanup ==
    cycles_left' # cycles_left =>
        /\ pc = "sleep"
        /\ active_messages = <<>>
        /\ PreviousCallDone

\* C13, the states: the transient handles outstanding are those of the
\* sends of the current call; the only request about a handle of an earlier
\* call is the first of the log, the deletion of the retained expiry
\* message; every other delete request is about a handle of this call.
C13_OwnHandlesOnly ==
    /\ \A i \in 1..Len(active_messages) : active_messages[i] \in SentHandles
    /\ \A i \in 1..Len(telegram) :
          telegram[i].op = "deleteMessage" =>
              IF i = 1 THEN HandleOf(telegram[i]) \notin SentHandles
              ELSE i > ExpiryAt /\ ExpiryAt > 0 /\ HandleOf(telegram[i]) \in SentHandles

\* C13: at most one cycle is in flight; the requests of two cycles never
\* interleave.
C13_OneCycleInFlight == [](C13_OwnHandlesOnly) /\ [][C13_StartsAfterCleanup]_vars

\* A later call of fetch_and_analyze has deleted the expiry message of the
\* completed cycle before it and has its own two transient messages out.
C13_Witness ==
    /\ pc = "dwell_main"
    /\ cycles_left < MaxCycles - 1
    /\ IsDelete(telegram[1])
    /\ Len(active_messages) = 2

\* C14: from the sleep of schedule_signals with a call still to come and
\* some buffer holding MinSamples ticks, either a request raises or the
\* call goes through the pre-alert, the main signal, the expiry message and
\* Cleanup, in that order, and is back in the sleep; and so for every
\* iteration of the loop.
C14_EveryIterationCompletes ==
    \A c \in 1..MaxCyclesLive :
        (pc = "sleep" /\ cycles_left = c /\ LongEnough # {})
            ~> \/ pc = "crashed"
               \/ /\ CycleCompleted
                  /\ cycles_left = c - 1
                  /\ Kinds(Sends) = <<"pre", "main", "expiry">>
                  /\ active_messages = <<>>

\* The second iteration has completed its cycle, after the first completed
\* its own.
C14_Witness ==
    /\ CycleCompleted
    /\ cycles_left = MaxCyclesLive - 2
    /\ IsDelete(telegram[1])
    /\ Kinds(Sends) = <<"pre", "main", "expiry">>
    /\ LongEnough # {}

\* The last tick the feed has delivered for a symbol.
MostRecent(symbol) == history[symbol][Len(history[symbol])]

\* C18, the states: from the pre-alert to the end of the call the chosen
\* market, signal and confidence are what analyze_market returned for that
\* market when the scan scored it.
C18_SelectionKept ==
    pc \in {"dwell_pre", "dwell_main", "dwell_expiry"} =>
        /\ best_market # None
        /\ results[Val(best_market)] # None
        /\ best_signal = Some(Val(results[Val(best_market)]).signal)
        /\ best_confidence = ConfOf(Val(best_market))

\* C18, the steps: no step taken during the dwells changes the selection,
\* and the step that sends the main signal announces the selection and, as
\* entry digit, the last digit of the most recent tick of the chosen market.
C18_MainStep ==
    /\ pc \in {"dwell_pre", "dwell_main", "dwell_expiry"} =>
          UNCHANGED <<best_market, best_signal, best_confidence, results>>
    /\ (pc = "dwell_pre" /\ pc' = "dwell_main") =>
          LET sent == telegram'[Len(telegram')]
              m == Val(best_market)
          IN  /\ IsSend(sent)
              /\ sent.caption.kind = "main"
              /\ sent.caption.market = m
              /\ sent.caption.signal = Val(results[m]).signal
              /\ sent.caption.confidence = ConfOf(m)
              /\ sent.caption.entry_digit = Some(LastDigit(MostRecent(m)))
              /\ entry_digit' = sent.caption.entry_digit

\* C18: the main signal carries the selection made by the scan and the last
\* digit of the tick that is the most recent when it is composed.
C18_MainSignalContent == [](C18_SelectionKept) /\ [][C18_MainStep]_vars

\* The main signal has been sent with the selection of the scan and with
\* the digit of a tick that arrived after the chosen market was scored, a
\* digit other than the one the scan saw last.
C18_Witness ==
    /\ pc = "dwell_main"
    /\ Len(history[Val(best_market)]) > ConfOf(Val(best_market)).n
    /\ entry_digit = Some(LastDigit(MostRecent(Val(best_market))))
    /\ Val(entry_digit) #
          LastDigit(history[Val(best_market)][ConfOf(Val(best_market)).n])
    /\ best_confidence = ConfOf(Val(best_market))

\* The delete requests of the current call of fetch_and_analyze for a handle.
DeleteCount(h) ==
    Cardinality({i \in 1..Len(telegram) : telegram[i] = DeleteRequest(h)})

\* The handles the pre-alert and main-signal sends of the current call
\* returned.
TransientHandles ==
    {Sends[i].message_id : i \in {j \in 1..Len(Sends) : Sends[j].caption.kind # "expiry"}}
        \ {None}

\* C19 as stated: no handle gets two delete requests, and once the call of
\* fetch_and_analyze that sent them is over, every transient handle it was
\* given has got its one delete request and none is left in the bookkeeping.
C19_Original ==
    /\ \A h \in SentHandles : DeleteCount(h) <= 1
    /\ pc \in {"sleep", "crashed"} =>
          /\ \A h \in TransientHandles : DeleteCount(h) = 1
          /\ active_messages = <<>>

\* C20: a step of the main thread (the scan, the scoring, the sends, the
\* deletes) changes no tick buffer, and a step of ws_thread changes neither
\* active_messages nor last_expired_id.
C20_Step ==
    /\ MainNext => market_ticks' = market_ticks
    /\ WsNext => UNCHANGED <<active_messages, last_expired_id>>

C20_OnlyBuffersShared == [][C20_Step]_vars

\* Both threads have been at work: every tick of the run has been delivered
\* and appended, and the main thread holds two transient handles and a
\* retained one.
C20_Witness ==
    /\ pc = "dwell_expiry"
    /\ Len(active_messages) = 2
    /\ last_expired_id # None
    /\ ticks_left = 0
    /\ ws_error = None
    /\ ws_pc = "recv"

====
